---- MODULE Spec2Model ----
(***************************************************************************)
(* LatexPlotGenerator (src/pytikz.py): a builder that accumulates axis     *)
(* options and plot lines and renders a filecontents* data block followed  *)
(* by a tikzpicture block.                                                 *)
(*                                                                         *)
(* A Python string is modelled as a sequence of fragments.  A fragment is  *)
(* a piece of text the model never looks inside: a character, or a word    *)
(* (a keyword of the templates, a key name).  Concatenation is \o, the     *)
(* line break is the fragment NL and the blank is the fragment SP, so      *)
(* splitting a text into lines and a line into tokens is computed, not     *)
(* assumed.                                                                *)
(***************************************************************************)
EXTENDS Integers, Sequences, FiniteSets, TLC

VARIABLES
    data,            \* self.data
    header,          \* self.header
    data_filename,   \* self.data_filename
    axis_options,    \* self.axis_options: insertion-ordered dict
    plot_lines,      \* self.plot_lines
    file,            \* the destination self.latex_filename names
    last,            \* the last call made: its name, what it raised, what it returned
    calls            \* history: the setter and add_plot_line calls made so far

vars == <<data, header, data_filename, axis_options, plot_lines, file, last, calls>>

builder == <<data, header, data_filename, axis_options, plot_lines>>

-----------------------------------------------------------------------------
(* Bounds of the model *)

MaxCols == 2
MaxRows == 2
MaxCalls == 3
MaxDataCalls == 1
MaxOpts == 2

-----------------------------------------------------------------------------
(* Text *)

NL == "\n"
SP == " "

RECURSIVE Concat(_)
\* "".join(parts)
Concat(parts) ==
    IF parts = <<>> THEN <<>> ELSE Head(parts) \o Concat(Tail(parts))

RECURSIVE Join(_, _)
\* sep.join(parts)
Join(sep, parts) ==
    IF parts = <<>> THEN <<>>
    ELSE IF Len(parts) = 1 THEN parts[1]
    ELSE parts[1] \o sep \o Join(sep, Tail(parts))

Digit(d) == <<"0", "1", "2", "3", "4", "5", "6", "7", "8", "9">>[d + 1]

RECURSIVE NatStr(_)
NatStr(n) == IF n < 10 THEN <<Digit(n)>> ELSE NatStr(n \div 10) \o <<Digit(n % 10)>>

\* str(v) of an integer value
Str(v) == IF v < 0 THEN <<"-">> \o NatStr(-v) ELSE NatStr(v)

Map(f(_), s) == [i \in 1..Len(s) |-> f(s[i])]

-----------------------------------------------------------------------------
(* Data block *)

Min(S) == CHOOSE m \in S : \A n \in S : m <= n

\* mutant: itertools.zip_longest(..., fillvalue=0): runs to the longest column
ZipLongest(cols) ==
    IF cols = <<>> THEN <<>>
    ELSE LET longest == CHOOSE m \in {Len(cols[j]) : j \in 1..Len(cols)} :
                            \A j \in 1..Len(cols) : m >= Len(cols[j])
         IN [i \in 1..longest |->
                [j \in 1..Len(cols) |-> IF i <= Len(cols[j]) THEN cols[j][i] ELSE 0]]

\* zip(*[self.data[col] for col in self.data]): stops at the shortest column
Zip(cols) ==
    IF cols = <<>> THEN <<>>
    ELSE [i \in 1..Min({Len(cols[j]) : j \in 1..Len(cols)}) |->
             [j \in 1..Len(cols) |-> cols[j][i]]]

\* mutant: the values of a row joined by the default separator of to_csv
RowLineComma(row) == Join(<<",">>, Map(Str, row))

\* " ".join(map(str, row))
RowLine(row) == Join(<<SP>>, Map(Str, row))

\* DataFrame.to_csv(sep=' ', index=False): the header record and one record per
\* row of the index, each ended by the line terminator
ToCsv(names, cols) ==
    Join(<<SP>>, names) \o <<NL>> \o
    Concat([i \in 1..Len(Zip(cols)) |-> RowLine(Zip(cols)[i]) \o <<NL>>])

Block(filename, data_str) ==
    <<"\\begin{filecontents*}{">> \o filename \o <<"}", NL>> \o data_str \o
    <<NL, "\\end{filecontents*}", NL>>

Raise(exc) == [exc |-> exc, ret |-> <<>>]
Ok(text) == [exc |-> "none", ret |-> text]

\* mutant: a row-major container without a header gets an empty header line
GenerateDataBlockDefaultHeader(d, h, filename) ==
    IF d.shape = "DataFrame"
    THEN Ok(Block(filename, ToCsv(d.names, d.cols)))
    ELSE IF d.shape = "dict"
    THEN Ok(Block(filename,
                  Join(<<SP>>, d.names) \o <<NL>> \o
                  Join(<<NL>>, Map(RowLine, Zip(d.cols)))))
    ELSE IF d.shape \in {"ndarray", "list"}
    THEN Ok(Block(filename,
                  Join(<<SP>>, h.names) \o <<NL>> \o
                  Join(<<NL>>, Map(RowLine, d.rows))))
    ELSE Raise("TypeError")

\* mutant: any sequence of rows is taken for a list of lists
GenerateDataBlockAnySequence(d, h, filename) ==
    IF d.shape = "DataFrame"
    THEN Ok(Block(filename, ToCsv(d.names, d.cols)))
    ELSE IF d.shape = "dict"
    THEN Ok(Block(filename,
                  Join(<<SP>>, d.names) \o <<NL>> \o
                  Join(<<NL>>, Map(RowLine, Zip(d.cols)))))
    ELSE IF d.shape \in {"ndarray", "list", "tuple"}
    THEN IF ~h.given
         THEN Raise("ValueError")
         ELSE Ok(Block(filename,
                       Join(<<SP>>, h.names) \o <<NL>> \o
                       Join(<<NL>>, Map(RowLine, d.rows))))
    ELSE Raise("TypeError")

GenerateDataBlock(d, h, filename) ==
    IF d.shape = "DataFrame"
    THEN Ok(Block(filename, ToCsv(d.names, d.cols)))
    ELSE IF d.shape = "dict"
    THEN Ok(Block(filename,
                  Join(<<SP>>, d.names) \o <<NL>> \o
                  Join(<<NL>>, Map(RowLine, Zip(d.cols)))))
    ELSE IF d.shape \in {"ndarray", "list"}
    THEN IF ~h.given
         THEN Raise("ValueError")
         ELSE Ok(Block(filename,
                       Join(<<SP>>, h.names) \o <<NL>> \o
                       Join(<<NL>>, Map(RowLine, d.rows))))
    ELSE Raise("TypeError")

-----------------------------------------------------------------------------
(* Axis options: dict item assignment keeps the position of a key already
   present and appends a new key *)

HasKey(d, k) == \E i \in 1..Len(d) : d[i].k = k

\* mutant: the item is appended whether or not the key is present
SetItemAppend(d, k, v) == Append(d, [k |-> k, v |-> v])

SetItem(d, k, v) ==
    IF HasKey(d, k)
    THEN [i \in 1..Len(d) |-> IF d[i].k = k THEN [k |-> k, v |-> v] ELSE d[i]]
    ELSE Append(d, [k |-> k, v |-> v])

-----------------------------------------------------------------------------
(* Python values of the keyword options of a plot line *)

VBool(b) == [t |-> "bool", b |-> b, s |-> <<>>, n |-> 0]
VNone == [t |-> "none", b |-> FALSE, s |-> <<>>, n |-> 0]
VStr(s) == [t |-> "str", b |-> FALSE, s |-> s, n |-> 0]
VInt(n) == [t |-> "int", b |-> FALSE, s |-> <<>>, n |-> n]

\* f"{value}"
Format(v) ==
    CASE v.t = "str" -> v.s
      [] v.t = "int" -> Str(v.n)
      [] v.t = "none" -> <<"None">>
      [] v.t = "bool" -> IF v.b THEN <<"True">> ELSE <<"False">>

RECURSIVE OptionPartsNoBoolTest(_)
\* mutant: no isinstance(value, bool) test, so a bool is formatted as key=value
OptionPartsNoBoolTest(options) ==
    IF options = <<>> THEN <<>>
    ELSE LET key == Head(options).k
             value == Head(options).v
             rest == OptionPartsNoBoolTest(Tail(options))
         IN IF value.t = "none" \/ (value.t = "str" /\ value.s = <<>>)
            THEN <<key>> \o rest
            ELSE <<key \o <<"=">> \o Format(value)>> \o rest

RECURSIVE OptionParts(_)
\* the list `parts` of _format_options
OptionParts(options) ==
    IF options = <<>> THEN <<>>
    ELSE LET key == Head(options).k
             value == Head(options).v
             rest == OptionParts(Tail(options))
         IN IF value.t = "bool"
            THEN IF value.b THEN <<key>> \o rest ELSE rest
            ELSE IF value.t = "none" \/ (value.t = "str" /\ value.s = <<>>)
            THEN <<key>> \o rest
            ELSE <<key \o <<"=">> \o Format(value)>> \o rest

FormatOptions(options) ==
    IF options = <<>> THEN <<>> ELSE Join(<<",", SP>>, OptionParts(options))

-----------------------------------------------------------------------------
(* Chart block *)

AxisLine(o) == <<"      ">> \o o.k \o <<"=">> \o o.v \o <<",">>

CommentLine(line) ==
    IF line.comment # <<>> THEN <<"    ", "%", SP>> \o line.comment \o <<NL>> ELSE <<>>

AddPlotLine(line, filename) ==
    <<"    ", "\\addplot[">> \o FormatOptions(line.options) \o <<"]", SP, "table", SP>> \o
    <<"[", "x", "=">> \o line.table_x \o <<",", SP, "y", "=">> \o line.table_y \o
    <<",", SP, "col", SP, "sep", "=", "space", "]", SP>> \o
    <<"{">> \o filename \o <<"}", ";", NL>>

LegendLine(line) ==
    <<"    ", "\\addlegendentry{">> \o line.legend \o <<"}", ";", NL, NL>>

\* mutant: the legend entry is written before the plot command
SeriesTextLegendFirst(line, filename) ==
    CommentLine(line) \o LegendLine(line) \o AddPlotLine(line, filename)

SeriesText(line, filename) ==
    CommentLine(line) \o AddPlotLine(line, filename) \o LegendLine(line)

GenerateTikzPicture(opts, lines, filename) ==
    <<"\\begin{figure}[H]", NL,
      "\\centering", NL,
      "\\begin{tikzpicture}", NL,
      "\\centering", NL,
      "  ", "\\begin{axis}[", NL>> \o
    Join(<<NL>>, Map(AxisLine, opts)) \o <<NL, "    ", "]", NL>> \o
    Concat([i \in 1..Len(lines) |-> SeriesText(lines[i], filename)]) \o
    <<"  ", "\\end{axis}", NL,
      "\\end{tikzpicture}", NL,
      "\\end{figure}", NL>>

GenerateLatexCode(d, h, filename, opts, lines) ==
    LET block == GenerateDataBlock(d, h, filename)
    IN IF block.exc # "none" THEN Raise(block.exc)
       ELSE Ok(block.ret \o <<NL>> \o GenerateTikzPicture(opts, lines, filename))

-----------------------------------------------------------------------------
(* The calls *)

Return(op, r) == [op |-> op, exc |-> r.exc, ret |-> r.ret]

Returns(op) == last' = Return(op, Ok(<<>>))

Braces(s) == <<"{">> \o s \o <<"}">>

\* mutant: the title can no longer be set once a plot line was added
set_title_locked(title) ==
    /\ IF plot_lines = <<>>
       THEN /\ axis_options' = SetItem(axis_options, <<"title">>, Braces(title))
            /\ Returns("set_title")
       ELSE /\ axis_options' = axis_options
            /\ last' = Return("set_title", Raise("RuntimeError"))
    /\ UNCHANGED <<data, header, data_filename, plot_lines, file>>

set_title(title) ==
    /\ axis_options' = SetItem(axis_options, <<"title">>, Braces(title))
    /\ Returns("set_title")
    /\ UNCHANGED <<data, header, data_filename, plot_lines, file>>

set_labels(xlabel, ylabel) ==
    /\ axis_options' = SetItem(SetItem(axis_options, <<"xlabel">>, Braces(xlabel)),
                               <<"ylabel">>, Braces(ylabel))
    /\ Returns("set_labels")
    /\ UNCHANGED <<data, header, data_filename, plot_lines, file>>

\* mutant: the legend position is put in braces as the title is
set_legend_braced(legend_pos) ==
    /\ axis_options' = SetItem(axis_options, <<"legend", SP, "pos">>, Braces(legend_pos))
    /\ Returns("set_legend")
    /\ UNCHANGED <<data, header, data_filename, plot_lines, file>>

set_legend(legend_pos) ==
    /\ axis_options' = SetItem(axis_options, <<"legend", SP, "pos">>, legend_pos)
    /\ Returns("set_legend")
    /\ UNCHANGED <<data, header, data_filename, plot_lines, file>>

set_grid(option, value) ==
    /\ axis_options' = SetItem(axis_options, option, value)
    /\ Returns("set_grid")
    /\ UNCHANGED <<data, header, data_filename, plot_lines, file>>

set_figsize(width, height) ==
    /\ axis_options' = SetItem(SetItem(axis_options, <<"width">>, width),
                               <<"height">>, height)
    /\ Returns("set_figsize")
    /\ UNCHANGED <<data, header, data_filename, plot_lines, file>>

set_xmin(xmin) ==
    /\ axis_options' = SetItem(axis_options, <<"xmin">>, xmin)
    /\ Returns("set_xmin")
    /\ UNCHANGED <<data, header, data_filename, plot_lines, file>>

set_xmax(xmax) ==
    /\ axis_options' = SetItem(axis_options, <<"xmax">>, xmax)
    /\ Returns("set_xmax")
    /\ UNCHANGED <<data, header, data_filename, plot_lines, file>>

set_ymin(ymin) ==
    /\ axis_options' = SetItem(axis_options, <<"ymin">>, ymin)
    /\ Returns("set_ymin")
    /\ UNCHANGED <<data, header, data_filename, plot_lines, file>>

set_ymax(ymax) ==
    /\ axis_options' = SetItem(axis_options, <<"ymax">>, ymax)
    /\ Returns("set_ymax")
    /\ UNCHANGED <<data, header, data_filename, plot_lines, file>>

\* mutant: the new plot line is put first
add_plot_line_first(table_x, table_y, legend, comment, line_options) ==
    /\ plot_lines' = <<[table_x |-> table_x, table_y |-> table_y,
                        legend |-> legend, options |-> line_options,
                        comment |-> comment]>> \o plot_lines
    /\ Returns("add_plot_line")
    /\ UNCHANGED <<data, header, data_filename, axis_options, file>>

add_plot_line(table_x, table_y, legend, comment, line_options) ==
    /\ plot_lines' = Append(plot_lines,
                            [table_x |-> table_x, table_y |-> table_y,
                             legend |-> legend, options |-> line_options,
                             comment |-> comment])
    /\ Returns("add_plot_line")
    /\ UNCHANGED <<data, header, data_filename, axis_options, file>>

generate_data_block ==
    /\ last' = Return("generate_data_block",
                      GenerateDataBlock(data, header, data_filename))
    /\ UNCHANGED <<builder, file, calls>>

\* mutant: rendering consumes the plot lines
generate_tikz_picture_draining ==
    /\ last' = Return("generate_tikz_picture",
                      Ok(GenerateTikzPicture(axis_options, plot_lines, data_filename)))
    /\ plot_lines' = <<>>
    /\ UNCHANGED <<data, header, data_filename, axis_options, file, calls>>

generate_tikz_picture ==
    /\ last' = Return("generate_tikz_picture",
                      Ok(GenerateTikzPicture(axis_options, plot_lines, data_filename)))
    /\ UNCHANGED <<builder, file, calls>>

generate_latex_code ==
    /\ last' = Return("generate_latex_code",
                      GenerateLatexCode(data, header, data_filename,
                                        axis_options, plot_lines))
    /\ UNCHANGED <<builder, file, calls>>

\* open(self.latex_filename, 'w') either raises OSError, and the destination is
\* as it was, or the file is created or truncated and the text written to it
save ==
    LET latex_code == GenerateLatexCode(data, header, data_filename,
                                        axis_options, plot_lines)
    IN /\ IF latex_code.exc # "none"
          THEN /\ last' = Return("save", Raise(latex_code.exc))
               /\ file' = file
          ELSE \/ /\ last' = Return("save", Raise("OSError"))
                  /\ file' = file
               \/ /\ last' = Return("save", Ok(<<>>))
                  /\ file' = [exists |-> TRUE, text |-> latex_code.ret]
       /\ UNCHANGED <<builder, calls>>

\* history: the call that was just made
Logged(m, args, opts) == calls' = Append(calls, [m |-> m, args |-> args, opts |-> opts])

-----------------------------------------------------------------------------
(* The state after construction *)

NoHeader == [given |-> FALSE, names |-> <<>>]
Header(names) == [given |-> TRUE, names |-> names]

NoFile == [exists |-> FALSE, text |-> <<>>]
OldFile == [exists |-> TRUE, text |-> <<"old", NL>>]

NoCall == [op |-> "init", exc |-> "none", ret |-> <<>>]

Values == {12, -3}

\* the name of column j: c1, c2, ...
ColName(j) == <<"c">> \o NatStr(j)

ColNames(k) == [j \in 1..k |-> ColName(j)]

\* the N x K tables, row-major
Tables(k) == UNION {[1..n -> [1..k -> Values]] : n \in 0..MaxRows}

Transpose(rows, k) == [j \in 1..k |-> [i \in 1..Len(rows) |-> rows[i][j]]]

Frame(shape, names, cols, rows) ==
    [shape |-> shape, names |-> names, cols |-> cols, rows |-> rows]

\* a dict whose column j holds only its first m values
Shorten(cols, j, m) == [cols EXCEPT ![j] = SubSeq(cols[j], 1, m)]

FileName == <<"d", ".", "t", "x", "t">>

Init0 ==
    /\ data_filename = FileName
    /\ axis_options = <<>>
    /\ plot_lines = <<>>
    /\ last = NoCall
    /\ calls = <<>>

\* LatexPlotGenerator(data, data_filename, latex_filename, header) for the inputs
\* of every shape
InitData ==
    /\ Init0
    /\ file \in {NoFile, OldFile}
    /\ \E k \in 1..MaxCols : \E rows \in Tables(k) :
         \/ /\ data = Frame("DataFrame", ColNames(k), Transpose(rows, k), <<>>)
            /\ header = NoHeader
         \/ /\ \E j \in {1, k}, m \in 0..Len(rows) :
                 data = Frame("dict", ColNames(k), Shorten(Transpose(rows, k), j, m), <<>>)
            /\ header = NoHeader
         \/ /\ data \in {Frame(shape, <<>>, <<>>, rows) : shape \in {"ndarray", "list", "tuple"}}
            /\ header \in {NoHeader, Header(ColNames(k))}
         \/ /\ data = Frame("int", <<>>, <<>>, <<>>)
            /\ header \in {NoHeader, Header(ColNames(k))}

SampleDict ==
    Frame("dict", ColNames(2), <<<<12, -3>>, <<-3, 12>>>>, <<>>)

Init ==
    /\ Init0
    /\ file = NoFile
    /\ data = SampleDict
    /\ header = NoHeader

-----------------------------------------------------------------------------
(* The arguments the calls are made with *)

Titles == {<<"T">>, <<"U", SP, "2">>}
XLabels == {<<"$", "s", "$">>}
YLabels == {<<"P">>}
LegendPos == {<<"north", SP, "west">>}
GridArgs == {<<<<"grid">>, <<"major">>>>, <<<<"title">>, <<"G">>>>}
Widths == {<<"1", "2", "c", "m">>}
Heights == {<<"8", "c", "m">>}
AxisBounds == {<<"0">>}

MarkThick == <<[k |-> <<"mark">>, v |-> VStr(<<"o">>)], [k |-> <<"thick">>, v |-> VBool(TRUE)]>>

\* (table_x, table_y, legend, comment, line_options)
PlotArgs ==
    { <<ColName(1), ColName(2), <<"A">>, <<>>, <<>>>>,
      <<ColName(1), ColName(2), <<"A">>, <<"a", SP, "c">>, MarkThick>>,
      <<ColName(2), ColName(1), <<"B">>, <<>>, MarkThick>>,
      <<ColName(2), ColName(1), <<"B">>, <<"b">>, <<>>>> }

OptKeys == {<<"mark">>, <<"thick">>, <<"color">>}
OptValues == {VBool(TRUE), VBool(FALSE), VNone, VStr(<<>>), VStr(<<"o">>), VInt(2)}

Injective(s) == \A i, j \in 1..Len(s) : i # j => s[i] # s[j]

\* the keyword dicts of at most MaxOpts options, in every order
OptionDicts ==
    UNION {{[i \in 1..n |-> [k |-> ks[i], v |-> vs[i]]] :
               ks \in {q \in [1..n -> OptKeys] : Injective(q)}, vs \in [1..n -> OptValues]} :
           n \in 0..MaxOpts}

-----------------------------------------------------------------------------
(* The next-state relations *)

Setter ==
    \/ \E t \in Titles : set_title(t) /\ Logged("set_title", <<t>>, <<>>)
    \/ \E x \in XLabels, y \in YLabels :
         set_labels(x, y) /\ Logged("set_labels", <<x, y>>, <<>>)
    \/ \E p \in LegendPos : set_legend(p) /\ Logged("set_legend", <<p>>, <<>>)
    \/ \E g \in GridArgs : set_grid(g[1], g[2]) /\ Logged("set_grid", <<g[1], g[2]>>, <<>>)
    \/ \E w \in Widths, h \in Heights :
         set_figsize(w, h) /\ Logged("set_figsize", <<w, h>>, <<>>)
    \/ \E b \in AxisBounds : set_xmin(b) /\ Logged("set_xmin", <<b>>, <<>>)
    \/ \E b \in AxisBounds : set_xmax(b) /\ Logged("set_xmax", <<b>>, <<>>)
    \/ \E b \in AxisBounds : set_ymin(b) /\ Logged("set_ymin", <<b>>, <<>>)
    \/ \E b \in AxisBounds : set_ymax(b) /\ Logged("set_ymax", <<b>>, <<>>)

AddLine(Args) ==
    \E a \in Args :
        /\ add_plot_line(a[1], a[2], a[3], a[4], a[5])
        /\ Logged("add_plot_line", <<a[1], a[2], a[3], a[4]>>, a[5])

Next ==
    \/ Len(calls) < MaxCalls /\ Setter
    \/ Len(calls) < MaxCalls /\ AddLine(PlotArgs)
    \/ generate_data_block
    \/ generate_tikz_picture
    \/ generate_latex_code

Spec == Init /\ [][Next]_vars

NextData ==
    \/ Len(calls) < MaxDataCalls /\ set_title(<<"T">>) /\ Logged("set_title", <<<<"T">>>>, <<>>)
    \/ Len(calls) < MaxDataCalls /\ AddLine({<<ColName(1), ColName(1), <<"A">>, <<"c">>, MarkThick>>})
    \/ generate_data_block
    \/ generate_tikz_picture
    \/ generate_latex_code
    \/ save

SpecData == InitData /\ [][NextData]_vars

\* one plot line with any keyword options, then the chart block
NextOptions ==
    \/ plot_lines = <<>> /\ AddLine({<<ColName(1), ColName(2), <<"A">>, <<>>, o>> : o \in OptionDicts})
    \/ generate_tikz_picture

SpecOptions == Init /\ [][NextOptions]_vars

-----------------------------------------------------------------------------
(* Reading a text back *)

RECURSIVE SplitOn(_, _)
\* text.split(sep), sep one fragment
SplitOn(text, sep) ==
    IF \A i \in 1..Len(text) : text[i] # sep THEN <<text>>
    ELSE LET i == Min({j \in 1..Len(text) : text[j] = sep})
         IN <<SubSeq(text, 1, i - 1)>> \o SplitOn(SubSeq(text, i + 1, Len(text)), sep)

LinesOf(text) == SplitOn(text, NL)

NonEmpty(l) == l # <<>>

\* the first index of `lines` holding `l`, 0 when there is none
IndexOf(lines, l) ==
    IF \E i \in 1..Len(lines) : lines[i] = l
    THEN Min({i \in 1..Len(lines) : lines[i] = l}) ELSE 0

BlockOpen == <<"\\begin{filecontents*}{">> \o data_filename \o <<"}">>
BlockClose == <<"\\end{filecontents*}">>

\* the non-empty lines between the block-open and the block-close line
Listing(text) ==
    LET lines == LinesOf(text)
    IN SelectSeq(SubSeq(lines, IndexOf(lines, BlockOpen) + 1, IndexOf(lines, BlockClose) - 1),
                 NonEmpty)

-----------------------------------------------------------------------------
(* The data set a builder was constructed with *)

RowMajor == data.shape \in {"ndarray", "list"}
Columnar == data.shape \in {"DataFrame", "dict"}
Accepted == RowMajor \/ Columnar

\* K columns and N rows: the columns of equal length, the rows as wide as the header
IsDataset ==
    \/ /\ Columnar
       /\ \A i, j \in 1..Len(data.cols) : Len(data.cols[i]) = Len(data.cols[j])
    \/ /\ RowMajor
       /\ header.given
       /\ \A i \in 1..Len(data.rows) : Len(data.rows[i]) = Len(header.names)

DatasetNames == IF Columnar THEN data.names ELSE header.names
DatasetRows == IF Columnar THEN Zip(data.cols) ELSE data.rows

-----------------------------------------------------------------------------
(* C1: for a Dataset of K columns and N rows in any of the four shapes,
   generate_data_block() returns a listing with exactly N+1 non-empty lines
   between the block-open and the block-close line: the first splits on
   blanks into the K column names in column order, and the i-th of the N
   that follow splits into the K stringified values of row i in column
   order. *)
ThmC1_DataBlockListing ==
    (last.op = "generate_data_block" /\ IsDataset) =>
        /\ last.exc = "none"
        /\ LET listing == Listing(last.ret)
               N == Len(DatasetRows)
           IN /\ Len(listing) = N + 1
              /\ SplitOn(listing[1], SP) = DatasetNames
              /\ Len(SplitOn(listing[1], SP)) = Len(DatasetNames)
              /\ \A i \in 1..N :
                   SplitOn(listing[i + 1], SP) =
                       [j \in 1..Len(DatasetNames) |-> Str(DatasetRows[i][j])]

WitC1_DataFrameTwoByTwo ==
    /\ last.op = "generate_data_block"
    /\ last.exc = "none"
    /\ data.shape = "DataFrame"
    /\ Len(data.names) = 2
    /\ Len(data.cols[1]) = 2
    /\ Len(Listing(last.ret)) = 3

MissingHeader == RowMajor /\ ~header.given

(* C2: a NumPy array or a list, an empty one included, with no header makes
   generate_data_block() and save() raise ValueError, and no step taken on
   such a builder creates or modifies the destination file. *)
ThmC2_MissingHeader ==
    [][MissingHeader =>
          /\ last'.op \in {"generate_data_block", "save"} =>
                 (last'.exc = "ValueError" /\ last'.ret = <<>>)
          /\ file' = file]_vars

WitC2_SaveEmptyListNoHeader ==
    /\ last.op = "save"
    /\ last.exc = "ValueError"
    /\ data.shape = "list"
    /\ data.rows = <<>>
    /\ ~header.given
    /\ file = NoFile

(* C3: data that is none of the four accepted shapes makes
   generate_data_block() and save() raise TypeError and nothing is written,
   whether or not a header was given and whatever axis options and plot
   lines the builder holds. *)
ThmC3_UnsupportedShape ==
    [][~Accepted =>
          /\ last'.op \in {"generate_data_block", "save"} =>
                 (last'.exc = "TypeError" /\ last'.ret = <<>>)
          /\ file' = file]_vars

WitC3_SaveNumberWithHeaderAndLine ==
    /\ last.op = "save"
    /\ last.exc = "TypeError"
    /\ data.shape = "int"
    /\ header.given
    /\ plot_lines # <<>>
    /\ file = OldFile

-----------------------------------------------------------------------------
(* Reading a chart block back *)

IsAdd(c) == c.m = "add_plot_line"
IsSetter(c) == c.m # "add_plot_line"

\* the add_plot_line calls made so far, in call order
AddCalls == SelectSeq(calls, IsAdd)
\* the axis-setter calls made so far, in call order
SetterCalls == SelectSeq(calls, IsSetter)

IsPlotLine(l) == Len(l) >= 2 /\ l[1] = "    " /\ l[2] = "\\addplot["
IsLegendLine(l) == Len(l) >= 2 /\ l[1] = "    " /\ l[2] = "\\addlegendentry{"
IsCommentLine(l) == Len(l) >= 2 /\ l[1] = "    " /\ l[2] = "%"
IsAxisOptionLine(l) == Len(l) >= 1 /\ l[1] = "      "
IsSeriesLine(l) == IsPlotLine(l) \/ IsLegendLine(l) \/ IsCommentLine(l)

EndsWith(l, suffix) ==
    Len(l) >= Len(suffix) /\ SubSeq(l, Len(l) - Len(suffix) + 1, Len(l)) = suffix

\* what follows the style options on a plot-command line
PlotTail(x, y) ==
    <<"]", SP, "table", SP, "[", "x", "=">> \o x \o <<",", SP, "y", "=">> \o y \o
    <<",", SP, "col", SP, "sep", "=", "space", "]", SP, "{">> \o data_filename \o <<"}", ";">>

\* the style options of a plot-command line: what stands between "\addplot[" and the tail
StyleOf(l, x, y) == SubSeq(l, 3, Len(l) - Len(PlotTail(x, y)))

(* C4: after add_plot_line was called M times, interleaved with any axis
   setters, generate_tikz_picture() holds exactly M legend-entry lines and
   exactly M plot-command lines, and the i-th of each carries the legend
   label, the x column and the y column of the i-th call. *)
ThmC4_OneLegendAndPlotPerCall ==
    last.op = "generate_tikz_picture" =>
        LET lines == LinesOf(last.ret)
            legends == SelectSeq(lines, IsLegendLine)
            plots == SelectSeq(lines, IsPlotLine)
            M == Len(AddCalls)
        IN /\ Len(legends) = M
           /\ Len(plots) = M
           /\ \A i \in 1..M :
                /\ legends[i] = <<"    ", "\\addlegendentry{">> \o AddCalls[i].args[3] \o <<"}", ";">>
                /\ EndsWith(plots[i], PlotTail(AddCalls[i].args[1], AddCalls[i].args[2]))

WitC4_TwoLinesAroundASetter ==
    /\ last.op = "generate_tikz_picture"
    /\ Len(calls) = 3
    /\ IsAdd(calls[1]) /\ IsSetter(calls[2]) /\ IsAdd(calls[3])
    /\ calls[1].args[3] # calls[3].args[3]
    /\ Len(SelectSeq(LinesOf(last.ret), IsLegendLine)) = 2

-----------------------------------------------------------------------------
\* an option that gives a token: every one but a False
Kept(o) == o.v # VBool(FALSE)

\* the token of an option that gives one
Token(o) ==
    IF o.v \in {VBool(TRUE), VStr(<<>>), VNone} THEN o.k ELSE o.k \o <<"=">> \o Format(o.v)

(* C5: the style options of a plot command are the ", "-joined tokens of the
   options in insertion order: True gives the bare key, False gives no token,
   "" and None give the bare key, any other value gives key=value; so
   {mark: "o", thick: True} gives "mark=o, thick". *)
ThmC5_StyleOptions ==
    (last.op = "generate_tikz_picture" /\ Len(AddCalls) = 1) =>
        LET c == AddCalls[1]
            l == SelectSeq(LinesOf(last.ret), IsPlotLine)[1]
            style == StyleOf(l, c.args[1], c.args[2])
        IN /\ style = Join(<<",", SP>>, Map(Token, SelectSeq(c.opts, Kept)))
           /\ c.opts = MarkThick => style = <<"mark", "=", "o", ",", SP, "thick">>

WitC5_FalseDroppedBetweenTwo ==
    /\ last.op = "generate_tikz_picture"
    /\ Len(AddCalls) = 1
    /\ AddCalls[1].opts = <<[k |-> <<"thick">>, v |-> VBool(FALSE)],
                           [k |-> <<"mark">>, v |-> VStr(<<"o">>)]>>
    /\ StyleOf(SelectSeq(LinesOf(last.ret), IsPlotLine)[1],
               AddCalls[1].args[1], AddCalls[1].args[2]) = <<"mark", "=", "o">>

-----------------------------------------------------------------------------
(* What the setter calls made so far gave *)

Gift(k, a, c) == [k |-> k, a |-> a, braced |-> c.m \in {"set_title", "set_labels"}]

\* the keys a setter call sets, each with the argument given for it
Given(c) ==
    CASE c.m = "set_title" -> <<Gift(<<"title">>, c.args[1], c)>>
      [] c.m = "set_labels" -> <<Gift(<<"xlabel">>, c.args[1], c), Gift(<<"ylabel">>, c.args[2], c)>>
      [] c.m = "set_legend" -> <<Gift(<<"legend", SP, "pos">>, c.args[1], c)>>
      [] c.m = "set_grid" -> <<Gift(c.args[1], c.args[2], c)>>
      [] c.m = "set_figsize" -> <<Gift(<<"width">>, c.args[1], c), Gift(<<"height">>, c.args[2], c)>>
      [] c.m = "set_xmin" -> <<Gift(<<"xmin">>, c.args[1], c)>>
      [] c.m = "set_xmax" -> <<Gift(<<"xmax">>, c.args[1], c)>>
      [] c.m = "set_ymin" -> <<Gift(<<"ymin">>, c.args[1], c)>>
      [] c.m = "set_ymax" -> <<Gift(<<"ymax">>, c.args[1], c)>>

\* every (key, argument) given so far, in call order
Gifts == Concat(Map(Given, SetterCalls))

Max(S) == CHOOSE m \in S : \A n \in S : m >= n

IsSet(g, k) == \E i \in 1..Len(g) : g[i].k = k

\* what the most recent of the gifts g for key k gave
LastGift(g, k) == g[Max({i \in 1..Len(g) : g[i].k = k})]

IsFirstGift(g, i) == \A j \in 1..(i - 1) : g[j].k # g[i].k

RECURSIVE KeysFrom(_, _)
\* the keys of the gifts g from the i-th on, in the order in which each was first set
KeysFrom(g, i) ==
    IF i > Len(g) THEN <<>>
    ELSE (IF IsFirstGift(g, i) THEN <<g[i].k>> ELSE <<>>) \o KeysFrom(g, i + 1)

KeysInOrder(g) == KeysFrom(g, 1)

AxisOpen == <<"  ", "\\begin{axis}[">>
AxisClose == <<"    ", "]">>

\* the lines of the axis section: between the axis-open line and the closing bracket
AxisSection(text) ==
    LET lines == LinesOf(text)
    IN SubSeq(lines, IndexOf(lines, AxisOpen) + 1, IndexOf(lines, AxisClose) - 1)

StartsWith(l, prefix) == Len(l) >= Len(prefix) /\ SubSeq(l, 1, Len(prefix)) = prefix

KeyPrefix(k) == <<"      ">> \o k \o <<"=">>

\* the value on the line of key k: what stands between "key=" and the last fragment
ValueOn(l, k) == SubSeq(l, Len(KeyPrefix(k)) + 1, Len(l) - 1)

AllKeys ==
    {<<"title">>, <<"xlabel">>, <<"ylabel">>, <<"legend", SP, "pos">>, <<"grid">>,
     <<"width">>, <<"height">>, <<"xmin">>, <<"xmax">>, <<"ymin">>, <<"ymax">>}

\* what a gift leaves in the axis options: set_title and set_labels put braces around it
VerbatimOrBraced(g) == IF g.braced THEN Braces(g.a) ELSE g.a

(* C6: after any sequence of axis-setter calls each axis-option key is on at
   most one line of the axis section, and the value on that line is the one
   the most recent call that set the key stored for it. *)
ThmC6_LastSetterWins ==
    last.op = "generate_tikz_picture" =>
        LET section == AxisSection(last.ret)
            g == Gifts
        IN \A k \in AllKeys :
            LET ls == SelectSeq(section, LAMBDA l : StartsWith(l, KeyPrefix(k)))
            IN /\ Len(ls) <= 1
               /\ IsSet(g, k) =>
                    /\ Len(ls) = 1
                    /\ ValueOn(ls[1], k) = VerbatimOrBraced(LastGift(g, k))
               /\ ~IsSet(g, k) => Len(ls) = 0

WitC6_TitleSetTwice ==
    /\ last.op = "generate_tikz_picture"
    /\ Len(calls) = 2
    /\ calls[1].m = "set_title" /\ calls[2].m = "set_title"
    /\ calls[1].args # calls[2].args
    /\ ValueOn(AxisSection(last.ret)[1], <<"title">>) = Braces(calls[2].args[1])

-----------------------------------------------------------------------------
Part(kind, i) == [kind |-> kind, i |-> i]

RECURSIVE SeriesParts(_)
\* what the add_plot_line calls from the i-th on must contribute, in order
SeriesParts(i) ==
    IF i > Len(AddCalls) THEN <<>>
    ELSE (IF AddCalls[i].args[4] # <<>> THEN <<Part("comment", i)>> ELSE <<>>) \o
         <<Part("plot", i), Part("legend", i)>> \o SeriesParts(i + 1)

\* line l is the part p of its series
IsPart(l, p) ==
    LET c == AddCalls[p.i]
    IN CASE p.kind = "comment" -> l = <<"    ", "%", SP>> \o c.args[4]
         [] p.kind = "plot" -> IsPlotLine(l) /\ EndsWith(l, PlotTail(c.args[1], c.args[2]))
         [] p.kind = "legend" -> l = <<"    ", "\\addlegendentry{">> \o c.args[3] \o <<"}", ";">>

FigureOpen == <<"\\begin{figure}[H]">>

(* C7: in the text generate_latex_code() returns, the data block precedes the
   chart block, every axis-option line precedes every series line, and each
   series contributes, next to each other and in this order, a comment line
   exactly when its comment is non-empty, one plot-command line and one
   legend-entry line. *)
ThmC7_StructuralOrder ==
    (last.op = "generate_latex_code" /\ last.exc = "none") =>
        LET lines == LinesOf(last.ret)
            series == SelectSeq(lines, IsSeriesLine)
            parts == SeriesParts(1)
            chart == IndexOf(lines, FigureOpen)
        IN /\ IndexOf(lines, BlockOpen) = 1
           /\ IndexOf(lines, BlockClose) > 1
           /\ chart > IndexOf(lines, BlockClose)
           /\ \A i \in 1..Len(lines) :
                (IsAxisOptionLine(lines[i]) \/ IsSeriesLine(lines[i])) => i > chart
           /\ \A i, j \in 1..Len(lines) :
                (IsAxisOptionLine(lines[i]) /\ IsSeriesLine(lines[j])) => i < j
           /\ Len(series) = Len(parts)
           /\ \A n \in 1..Len(parts) : IsPart(series[n], parts[n])

WitC7_CommentedAndBareSeries ==
    /\ last.op = "generate_latex_code"
    /\ last.exc = "none"
    /\ Len(calls) = 3
    /\ IsAdd(calls[1]) /\ calls[1].args[4] # <<>>
    /\ IsSetter(calls[2])
    /\ IsAdd(calls[3]) /\ calls[3].args[4] = <<>>
    /\ Len(SelectSeq(LinesOf(last.ret), IsSeriesLine)) = 5

-----------------------------------------------------------------------------
Renderers == {"generate_data_block", "generate_tikz_picture", "generate_latex_code", "save"}

(* C8: generate_data_block, generate_tikz_picture, generate_latex_code and
   save leave the data, the header, the axis options and the plot lines as
   they were, and a call that repeats the one before it, with no setter or
   add_plot_line call in between, returns what that one returned (save apart
   from a refusal of the destination, which the builder does not decide). *)
ThmC8_RenderingIsPure ==
    [][last'.op \in Renderers =>
          /\ builder' = builder
          /\ (last.op = last'.op /\ "OSError" \notin {last.exc, last'.exc}) =>
                 (last'.ret = last.ret /\ last'.exc = last.exc)]_vars

WitC8_CodeOfAConfiguredBuilder ==
    /\ last.op = "generate_latex_code"
    /\ last.exc = "none"
    /\ plot_lines # <<>>
    /\ last.ret = GenerateLatexCode(data, header, data_filename, axis_options, plot_lines).ret

-----------------------------------------------------------------------------
\* the axis section holds exactly one line key=value, for every key set, the lines
\* in the order in which the keys were first set and each ended by a comma;
\* Value gives the value a line is to hold from the most recent gift for its key
AxisLinesAre(text, Value(_)) ==
    LET g == Gifts
        keys == KeysInOrder(g)
    IN SelectSeq(AxisSection(text), NonEmpty) =
           [i \in 1..Len(keys) |->
               KeyPrefix(keys[i]) \o Value(LastGift(g, keys[i])) \o <<",">>]

Verbatim(g) == g.a

(* C9 as stated: for every axis option set through a setter the chart block
   holds exactly one line key=value, in which the value is the string the
   caller gave, nothing added or removed; the lines are in the order in which
   the keys were first set and each, the last included, ends with a comma. *)
CexC9_EveryValueVerbatim ==
    last.op = "generate_tikz_picture" => AxisLinesAre(last.ret, Verbatim)

(* C9 as amended: for every axis option set through a setter the chart block
   holds exactly one line key=value, in which the value is the string the
   most recent call for the key gave, copied verbatim, except that set_title
   and set_labels put it in one pair of braces; the lines are in the order in
   which the keys were first set and each, the last included, ends with a
   comma. *)
ThmC9_AxisLines ==
    last.op = "generate_tikz_picture" => AxisLinesAre(last.ret, VerbatimOrBraced)

WitC9_TitleThenLegendThenBound ==
    /\ last.op = "generate_tikz_picture"
    /\ Len(calls) = 3
    /\ calls[1].m = "set_title" /\ calls[2].m = "set_legend" /\ calls[3].m = "set_xmin"
    /\ Len(SelectSeq(AxisSection(last.ret), NonEmpty)) = 3

-----------------------------------------------------------------------------
RECURSIVE Replay(_, _)
\* the axis options d after the gifts g are stored into them, one after the other
Replay(d, g) ==
    IF g = <<>> THEN d
    ELSE Replay(SetItem(d, Head(g).k, VerbatimOrBraced(Head(g))), Tail(g))

ReplaySetters == Replay(<<>>, Gifts)

ReplayAdds ==
    [i \in 1..Len(AddCalls) |->
        [table_x |-> AddCalls[i].args[1], table_y |-> AddCalls[i].args[2],
         legend |-> AddCalls[i].args[3], options |-> AddCalls[i].opts,
         comment |-> AddCalls[i].args[4]]]

Mutators ==
    {"set_title", "set_labels", "set_legend", "set_grid", "set_figsize",
     "set_xmin", "set_xmax", "set_ymin", "set_ymax", "add_plot_line"}

(* C10: the builder's state and the text it builds depend only on the
   sequence of setter calls and on the sequence of add_plot_line calls, not
   on how the two are interleaved, and no setter, add_plot_line or
   generate_latex_code call fails, in whatever order they come. *)
ThmC10_AnyOrder ==
    /\ axis_options = ReplaySetters
    /\ plot_lines = ReplayAdds
    /\ last.op \in Mutators \cup {"generate_latex_code"} => last.exc = "none"
    /\ last.op = "generate_latex_code" =>
         last.ret = GenerateLatexCode(data, header, data_filename,
                                      ReplaySetters, ReplayAdds).ret

WitC10_SetterAfterPlotLine ==
    /\ last.op = "generate_latex_code"
    /\ Len(calls) = 3
    /\ IsSetter(calls[1]) /\ IsAdd(calls[2]) /\ calls[3].m = "set_title"
    /\ Len(axis_options) = 2
    /\ Len(plot_lines) = 1

-----------------------------------------------------------------------------
\* a dict whose columns are not all of one length
UnequalDict ==
    /\ data.shape = "dict"
    /\ \E i, j \in 1..Len(data.cols) : Len(data.cols[i]) # Len(data.cols[j])

\* the length of the shortest column of the dict
ShortestColumn ==
    CHOOSE m \in {Len(data.cols[j]) : j \in 1..Len(data.cols)} :
        \A j \in 1..Len(data.cols) : m <= Len(data.cols[j])

(* C11: for a dict whose columns have unequal lengths generate_data_block()
   raises nothing and its listing holds, after the header line, exactly as
   many rows as the shortest column has values, the later values of the
   longer columns being dropped; row i splits on blanks into exactly K
   values, the i-th of each column in column order. *)
ThmC11_UnequalColumnsTruncated ==
    (last.op = "generate_data_block" /\ UnequalDict) =>
        /\ last.exc = "none"
        /\ LET listing == Listing(last.ret)
               K == Len(data.names)
           IN /\ Len(listing) = ShortestColumn + 1
              /\ listing[1] = Join(<<SP>>, data.names)
              /\ \A i \in 1..ShortestColumn :
                   /\ Len(SplitOn(listing[i + 1], SP)) = K
                   /\ SplitOn(listing[i + 1], SP) = [j \in 1..K |-> Str(data.cols[j][i])]

WitC11_TwoAndOne ==
    /\ last.op = "generate_data_block"
    /\ last.exc = "none"
    /\ data.shape = "dict"
    /\ Len(data.cols) = 2
    /\ Len(data.cols[1]) = 2
    /\ Len(data.cols[2]) = 1
    /\ Len(Listing(last.ret)) = 2

====
